---- MODULE Spec2Model ----
(***************************************************************************)
(* LuckyBeer Bot (src/app.py): a FastAPI process that loads beers.json     *)
(* once at import time and relays each POST /api/chat to the OpenAI        *)
(* Responses API through a lazily built, process-wide client.              *)
(*                                                                         *)
(* The model follows one server process: the module import (catalog load), *)
(* the chat coroutine split at its source lines, the provider as a         *)
(* nondeterministic outcome of the outbound call, and the environment      *)
(* (OPENAI_API_KEY, beers.json on disk) changing under the process.        *)
(* Logging calls are not modelled: they write no state the handler reads.  *)
(***************************************************************************)
EXTENDS Naturals, Sequences, FiniteSets

\* ------------------------------------------------------------------ bounds

\* Number of request slots that can be in the server at the same time.
NumReqs == 2
\* Longest catalog list that beers.json holds.
MaxCatalog == 2
\* The count of OpenAI(...) constructions saturates here.
MaxConstructed == 3

Reqs == 1..NumReqs

\* ------------------------------------------------------- JSON and beers.json

\* A value json.load can return.  items is the content of a container (list
\* elements, dict keys, string characters); num is the value of a number or
\* bool.
JList(s) == [kind |-> "list", items |-> s, num |-> 0]
JDict(s) == [kind |-> "dict", items |-> s, num |-> 0]
JString(s) == [kind |-> "string", items |-> s, num |-> 0]
JNumber(n) == [kind |-> "number", items |-> <<>>, num |-> n]
JNull == [kind |-> "null", items |-> <<>>, num |-> 0]

Entries == {"Rubia Suave"}

CatalogLists ==
    UNION {[1..n -> Entries] : n \in 0..MaxCatalog}

ParsedValues ==
    {JList(s) : s \in CatalogLists}
        \cup {JDict(<<>>), JDict(<<"beers">>), JString(<<"x">>), JNumber(5), JNull}

\* beers.json on disk: absent (is_file() is false), present but open() fails,
\* present but json.load fails, or present and parsed to value.
FileMissing == [state |-> "missing", value |-> JNull]
FileUnreadable == [state |-> "unreadable", value |-> JNull]
FileUnparseable == [state |-> "unparseable", value |-> JNull]
FileOk(v) == [state |-> "ok", value |-> v]

FileStates ==
    {FileMissing, FileUnreadable, FileUnparseable} \cup {FileOk(v) : v \in ParsedValues}

\* What the file can become while the process runs: deleted, or rewritten
\* with a valid one-entry catalog.
FileUpdates == {FileMissing, FileOk(JList(<<"Rubia Suave">>))}

\* len(x) is defined for containers only; it raises TypeError otherwise.
HasLen(v) == v.kind \in {"list", "dict", "string"}

\* Variant: the guard written as "if BEERS_DATA is None".
TruthyIsNotNone(v) == v.kind # "null"

\* Python truth value, as "if not BEERS_DATA" uses it.
Truthy(v) ==
    CASE v.kind \in {"list", "dict", "string"} -> Len(v.items) > 0
      [] v.kind \in {"number", "bool"} -> v.num # 0
      [] OTHER -> FALSE

\* Variant: the load without its except clause.
LoadCatalogNoExcept(f) ==
    IF f.state = "missing"
    THEN [crashed |-> FALSE, data |-> JList(<<>>)]
    ELSE IF f.state \in {"unreadable", "unparseable"}
    THEN [crashed |-> TRUE, data |-> JList(<<>>)]
    ELSE IF ~HasLen(f.value)
    THEN [crashed |-> TRUE, data |-> JList(<<>>)]
    ELSE [crashed |-> FALSE, data |-> f.value]

\* The module-level try/except around the load.  crashed is TRUE when an
\* exception leaves the block, which ends the import and the process.
LoadCatalog(f) ==
    IF f.state = "missing"
    THEN [crashed |-> FALSE, data |-> JList(<<>>)]
    ELSE IF f.state \in {"unreadable", "unparseable"}
    THEN [crashed |-> FALSE, data |-> JList(<<>>)]
    ELSE IF ~HasLen(f.value)
    THEN [crashed |-> FALSE, data |-> JList(<<>>)]
    ELSE [crashed |-> FALSE, data |-> f.value]

\* BEERS_DATA before the import has bound it.
Unbound == [kind |-> "unbound", items |-> <<>>, num |-> 0]

\* ------------------------------------------------------------ the client

\* os.getenv("OPENAI_API_KEY"): unset, set to the empty string, or a key.
NoKey == "<unset>"
EnvValues == {NoKey, "", "sk-test"}

\* The global client: None, or the OpenAI object built from a key.  serial
\* tells one constructed object from another.
None == [api_key |-> "<none>", serial |-> 0]
Handle(k, n) == [api_key |-> k, serial |-> n]

ConfigDetail == "OPENAI_API_KEY no está configurada en el servidor"

Bump(n) == IF n < MaxConstructed THEN n + 1 ELSE n

\* Variant: no test of the key before the client is built.
get_openai_client_nokeytest(cl, key) ==
    IF cl # None
    THEN [outcome |-> "cached", error |-> "", ret |-> cl, api_key |-> ""]
    ELSE [outcome |-> "build", error |-> "", ret |-> None, api_key |-> key]

\* Variant: no test of the global before a client is built.
get_openai_client_nocache(cl, key) ==
    IF key = NoKey \/ key = ""
    THEN [outcome |-> "raise", error |-> ConfigDetail, ret |-> None, api_key |-> ""]
    ELSE [outcome |-> "build", error |-> "", ret |-> None, api_key |-> key]

\* Variant: the key is validated on every call, before the global is returned.
get_openai_client_keyfirst(cl, key) ==
    IF key = NoKey \/ key = ""
    THEN [outcome |-> "raise", error |-> ConfigDetail, ret |-> None, api_key |-> ""]
    ELSE IF cl # None
    THEN [outcome |-> "cached", error |-> "", ret |-> cl, api_key |-> ""]
    ELSE [outcome |-> "build", error |-> "", ret |-> None, api_key |-> key]

\* get_openai_client() up to its last branch (lines 54-61): cl is the global
\* client, key the environment value.  "cached": return client; "raise":
\* RuntimeError(error); "build": go on to construct a client from key.
get_openai_client(cl, key) ==
    IF cl # None
    THEN [outcome |-> "cached", error |-> "", ret |-> cl, api_key |-> ""]
    ELSE IF key = NoKey \/ key = ""
    THEN [outcome |-> "raise", error |-> ConfigDetail, ret |-> None, api_key |-> ""]
    ELSE [outcome |-> "build", error |-> "", ret |-> None, api_key |-> key]

\* ----------------------------------------------------------- the provider

Absent == "<absent>"
Malformed == "<raises>"

ProviderErrors == {"RateLimitError: insufficient_quota", "APIConnectionError: timed out"}

\* What client.responses.create(...) can do: raise, or return an object whose
\* output_text is missing, unreadable (reading it raises something other
\* than AttributeError), empty or a text, and whose output[0].content[0].text
\* is unreachable, empty or a text.
OutputTexts == {Absent, Malformed, "", "Te recomiendo Rubia Suave..."}
FallbackTexts == {Absent, "", "Prueba la Rubia Suave."}

NoResponse == [kind |-> "none", error |-> "", output_text |-> Absent, text |-> Absent]

ProviderOutcomes ==
    {[kind |-> "raise", error |-> e, output_text |-> Absent, text |-> Absent] :
        e \in ProviderErrors}
    \cup {[kind |-> "response", error |-> "", output_text |-> o, text |-> t] :
        o \in OutputTexts, t \in FallbackTexts}

Placeholder == "Ahora mismo no puedo responder, mi barril de IA está vacío."

\* Variant: the fallback guarded by "if reply_text is None".
extract_reply_isnone(resp) ==
    IF resp.output_text = Malformed
    THEN [raised |-> TRUE, reply |-> "", steps |-> <<"primary">>]
    ELSE IF resp.output_text # Absent
    THEN [raised |-> FALSE, reply |-> resp.output_text, steps |-> <<"primary">>]
    ELSE IF resp.text = Absent
    THEN [raised |-> FALSE, reply |-> Placeholder,
          steps |-> <<"primary", "fallback", "placeholder">>]
    ELSE [raised |-> FALSE, reply |-> resp.text, steps |-> <<"primary", "fallback">>]

\* Lines 138-144: the reply taken from a returned response, with the steps
\* taken.  raised: an exception reaches the outer except.
extract_reply(resp) ==
    IF resp.output_text = Malformed
    THEN [raised |-> TRUE, reply |-> "", steps |-> <<"primary">>]
    ELSE IF resp.output_text # Absent /\ resp.output_text # ""
    THEN [raised |-> FALSE, reply |-> resp.output_text, steps |-> <<"primary">>]
    ELSE IF resp.text = Absent
    THEN [raised |-> FALSE, reply |-> Placeholder,
          steps |-> <<"primary", "fallback", "placeholder">>]
    ELSE [raised |-> FALSE, reply |-> resp.text, steps |-> <<"primary", "fallback">>]

\* -------------------------------------------------------------- responses

NoReply == "<none>"
NoResult == [status |-> 0, detail |-> "", reply |-> NoReply]
HTTPException(code, d) == [status |-> code, detail |-> d, reply |-> NoReply]
Ok(text) == [status |-> 200, detail |-> "", reply |-> text]

CatalogDetail == "El catálogo de cervezas (beers.json) no está cargado en el servidor."
GenericDetail == "Error interno hablando con el modelo de IA."

Messages == {"quiero algo suave", "otra"}

\* ------------------------------------------------------------------ state

VARIABLES
    proc,        \* "importing", "serving" or "crashed"
    file,        \* beers.json on disk
    bootFile,    \* beers.json as it was when the module was imported
    BEERS_DATA,  \* the global catalog
    env,         \* OPENAI_API_KEY in the environment
    client,      \* the global client
    constructed, \* number of OpenAI(...) constructions in this process
    req          \* per request slot: position in chat() and its locals

vars == <<proc, file, bootFile, BEERS_DATA, env, client, constructed, req>>

IdleReq ==
    [pc |-> "idle", message |-> "", api_key |-> "", handle |-> None,
     response |-> NoResponse, result |-> NoResult, trace |-> <<>>]

Init ==
    /\ proc = "importing"
    /\ file \in FileStates
    /\ bootFile = file
    /\ BEERS_DATA = Unbound
    /\ env \in EnvValues
    /\ client = None
    /\ constructed = 0
    /\ req = [r \in Reqs |-> IdleReq]

\* Lines 67-78: the import runs the load once.
Startup ==
    /\ proc = "importing"
    /\ LET l == LoadCatalog(file)
       IN /\ proc' = IF l.crashed THEN "crashed" ELSE "serving"
          /\ BEERS_DATA' = IF l.crashed THEN BEERS_DATA ELSE l.data
    /\ UNCHANGED <<file, bootFile, env, client, constructed, req>>

InHandler(r) == req[r].pc \in {"L107", "L115", "L63", "L120", "L138", "L149"}

\* Variant: chat declared with "def", which the framework runs on a thread
\* pool, so handlers interleave.
LoopFreeThreadPool(r) == TRUE

\* chat is a coroutine without an await: once the event loop starts it, it
\* runs to its end before the loop starts another.
LoopFree(r) == \A q \in Reqs \ {r} : ~InHandler(q)

LoopIdle == \A q \in Reqs : ~InHandler(q)

\* A POST /api/chat with a valid body reaches the server.
Arrive(r, m) ==
    /\ proc = "serving"
    /\ req[r].pc = "idle"
    /\ req' = [req EXCEPT ![r] = [IdleReq EXCEPT !.pc = "pending", !.message = m]]
    /\ UNCHANGED <<proc, file, bootFile, BEERS_DATA, env, client, constructed>>

\* The event loop starts the handler.
Begin(r) ==
    /\ req[r].pc = "pending"
    /\ LoopFree(r)
    /\ req' = [req EXCEPT ![r].pc = "L107"]
    /\ UNCHANGED <<proc, file, bootFile, BEERS_DATA, env, client, constructed>>

Finish(r, res) == [IdleReq EXCEPT !.pc = "done", !.result = res,
                                  !.handle = req[r].handle, !.trace = req[r].trace]

\* Lines 107-112.
CheckCatalog(r) ==
    /\ req[r].pc = "L107"
    /\ req' = [req EXCEPT ![r] =
            IF ~Truthy(BEERS_DATA)
            THEN [Finish(r, HTTPException(500, CatalogDetail))
                    EXCEPT !.trace = Append(req[r].trace, "catalog")]
            ELSE [req[r] EXCEPT !.pc = "L115", !.trace = Append(@, "catalog")]]
    /\ UNCHANGED <<proc, file, bootFile, BEERS_DATA, env, client, constructed>>

\* Lines 114-117, entering get_openai_client (lines 54-61).
GetClient(r) ==
    /\ req[r].pc = "L115"
    /\ LET g == get_openai_client(client, env)
       IN req' = [req EXCEPT ![r] =
            CASE g.outcome = "raise" ->
                    [Finish(r, HTTPException(500, g.error))
                        EXCEPT !.trace = Append(req[r].trace, "credential")]
              [] g.outcome = "cached" ->
                    [req[r] EXCEPT !.pc = "L120", !.handle = g.ret,
                                   !.trace = Append(@, "credential")]
              [] OTHER ->
                    [req[r] EXCEPT !.pc = "L63", !.api_key = g.api_key,
                                   !.trace = Append(@, "credential")]]
    /\ UNCHANGED <<proc, file, bootFile, BEERS_DATA, env, client, constructed>>

\* Lines 63-65 and the return into line 115: the client is constructed and
\* stored in the global.
Construct(r) ==
    /\ req[r].pc = "L63"
    /\ client' = Handle(req[r].api_key, Bump(constructed))
    /\ constructed' = Bump(constructed)
    /\ req' = [req EXCEPT ![r] =
            [req[r] EXCEPT !.pc = "L120", !.api_key = "", !.handle = client',
                           !.trace = Append(@, "construct")]]
    /\ UNCHANGED <<proc, file, bootFile, BEERS_DATA, env>>

\* Lines 120-135: the catalog is serialised and the one outbound call made;
\* out is what the provider does with it.
CallProvider(r, out) ==
    /\ req[r].pc = "L120"
    /\ req' = [req EXCEPT ![r] =
            [req[r] EXCEPT !.pc = IF out.kind = "raise" THEN "L149" ELSE "L138",
                           !.response = out,
                           !.trace = Append(@, "call")]]
    /\ UNCHANGED <<proc, file, bootFile, BEERS_DATA, env, client, constructed>>

\* Lines 137-146.
ExtractReply(r) ==
    /\ req[r].pc = "L138"
    /\ LET x == extract_reply(req[r].response)
       IN req' = [req EXCEPT ![r] =
            IF x.raised
            THEN [req[r] EXCEPT !.pc = "L149", !.trace = @ \o x.steps]
            ELSE [Finish(r, Ok(x.reply)) EXCEPT !.trace = req[r].trace \o x.steps]]
    /\ UNCHANGED <<proc, file, bootFile, BEERS_DATA, env, client, constructed>>

\* Variant: the detail built from the exception, str(e).
HandleErrorLeak(r) ==
    /\ req[r].pc = "L149"
    /\ req' = [req EXCEPT ![r] =
            [Finish(r, HTTPException(500, req[r].response.error))
                EXCEPT !.trace = Append(req[r].trace, "except")]]
    /\ UNCHANGED <<proc, file, bootFile, BEERS_DATA, env, client, constructed>>

\* Variant: the except clause issues the call again.
HandleErrorRetry(r) ==
    /\ req[r].pc = "L149"
    /\ req' = [req EXCEPT ![r] =
            [req[r] EXCEPT !.pc = "L120", !.response = NoResponse,
                           !.trace = Append(@, "except")]]
    /\ UNCHANGED <<proc, file, bootFile, BEERS_DATA, env, client, constructed>>

\* Lines 148-153.
HandleError(r) ==
    /\ req[r].pc = "L149"
    /\ req' = [req EXCEPT ![r] =
            [Finish(r, HTTPException(500, GenericDetail))
                EXCEPT !.trace = Append(req[r].trace, "except")]]
    /\ UNCHANGED <<proc, file, bootFile, BEERS_DATA, env, client, constructed>>

\* The response has been sent; the slot takes a later request.
Recycle(r) ==
    /\ req[r].pc = "done"
    /\ req' = [req EXCEPT ![r] = IdleReq]
    /\ UNCHANGED <<proc, file, bootFile, BEERS_DATA, env, client, constructed>>

\* The environment variable changes between two handler runs.
SetEnv(k) ==
    /\ proc = "serving"
    /\ LoopIdle
    /\ k # env
    /\ env' = k
    /\ UNCHANGED <<proc, file, bootFile, BEERS_DATA, client, constructed, req>>

\* beers.json changes on disk while the process runs.
FileChange(f) ==
    /\ proc = "serving"
    /\ f # file
    /\ file' = f
    /\ UNCHANGED <<proc, bootFile, BEERS_DATA, env, client, constructed, req>>

Next ==
    \/ Startup
    \/ \E r \in Reqs, m \in Messages : Arrive(r, m)
    \/ \E r \in Reqs : Begin(r)
    \/ \E r \in Reqs : CheckCatalog(r)
    \/ \E r \in Reqs : GetClient(r)
    \/ \E r \in Reqs : Construct(r)
    \/ \E r \in Reqs, out \in ProviderOutcomes : CallProvider(r, out)
    \/ \E r \in Reqs : ExtractReply(r)
    \/ \E r \in Reqs : HandleError(r)
    \/ \E r \in Reqs : Recycle(r)
    \/ \E k \in EnvValues : SetEnv(k)
    \/ \E f \in FileUpdates : FileChange(f)

Spec == Init /\ [][Next]_vars

\* ------------------------------------------------------------- properties

Done(r) == req[r].pc = "done"

Count(tr, label) == Cardinality({i \in DOMAIN tr : tr[i] = label})

\* The in-memory catalog holds no entry.
CatalogEmpty == Len(BEERS_DATA.items) = 0

CatalogError == [status |-> 500, detail |-> CatalogDetail, reply |-> NoReply]
ConfigError == [status |-> 500, detail |-> ConfigDetail, reply |-> NoReply]
GenericError == [status |-> 500, detail |-> GenericDetail, reply |-> NoReply]

LoadFailed(f) == f.state \in {"missing", "unreadable", "unparseable"}

\* C1: while the catalog is empty, whatever the credential, no request
\* reaches the credential step or the provider, no client is built, and every
\* finished request carries HTTP 500 with the catalog-unavailable detail.
C1_EmptyCatalogFailsFast ==
    (proc = "serving" /\ CatalogEmpty) =>
        /\ client = None
        /\ constructed = 0
        /\ \A r \in Reqs :
            /\ Count(req[r].trace, "call") = 0
            /\ Count(req[r].trace, "credential") = 0
            /\ req[r].handle = None
            /\ Done(r) => req[r].result = CatalogError

C1_Witness ==
    \E r \in Reqs :
        /\ Done(r)
        /\ CatalogEmpty
        /\ env = "sk-test"
        /\ req[r].result = CatalogError
        /\ req[r].trace = <<"catalog">>

\* C2: a request that reaches the credential step (catalog non-empty) while
\* the client is unset and the credential is absent from the environment
\* ends there with HTTP 500 and the configuration detail, without an
\* outbound call and without a client being built.
C2_MissingCredential ==
    [][\A r \in Reqs :
        (/\ req[r].pc = "L115"
         /\ req'[r] # req[r]
         /\ ~CatalogEmpty
         /\ client = None
         /\ env = NoKey)
        => /\ req'[r].pc = "done"
           /\ req'[r].result = ConfigError
           /\ Count(req'[r].trace, "call") = 0
           /\ client' = None
           /\ constructed' = constructed]_vars

C2_Witness ==
    \E r \in Reqs :
        /\ Done(r)
        /\ ~CatalogEmpty
        /\ env = NoKey
        /\ client = None
        /\ req[r].result = ConfigError
        /\ req[r].trace = <<"catalog", "credential">>

\* C3: a provider call that raises, or a response whose reading raises, is
\* routed to the except clause, and every request that went through it ends
\* with HTTP 500 and the one generic detail; no response carries provider
\* error text.
C3_GenericProviderError ==
    \A r \in Reqs :
        /\ req[r].response.kind = "raise" => req[r].pc = "L149"
        /\ req[r].response.output_text = Malformed => req[r].pc \in {"L138", "L149"}
        /\ (Done(r) /\ Count(req[r].trace, "except") > 0) => req[r].result = GenericError
        /\ (Done(r) /\ Count(req[r].trace, "call") > 0 /\ req[r].result.status # 200)
                => req[r].result = GenericError
        /\ req[r].result.detail \notin ProviderErrors
        /\ req[r].result.reply \notin ProviderErrors

C3_Witness ==
    \E r \in Reqs :
        /\ Done(r)
        /\ req[r].result = GenericError
        /\ req[r].trace = <<"catalog", "credential", "call", "except">>

\* C4: every request whose provider call returned and whose response was
\* read without an exception ends with HTTP 200 and a non-empty reply.
C4_NonEmptyReply ==
    \A r \in Reqs :
        (Done(r) /\ Count(req[r].trace, "call") = 1 /\ Count(req[r].trace, "except") = 0)
            => /\ req[r].result.status = 200
               /\ req[r].result.reply # NoReply
               /\ req[r].result.reply # ""

PrimaryPresent(resp) == resp.output_text \notin {Absent, Malformed, ""}

\* C5: when a returned response is read (without its reading raising), the
\* request ends with HTTP 200; the reply is the primary text when that is
\* present and non-empty, else the fallback text when that path is present,
\* else the fixed placeholder; the fallback path is tried at most once.
C5_ReplyExtraction ==
    [][\A r \in Reqs :
        (/\ req[r].pc = "L138"
         /\ req'[r] # req[r]
         /\ req[r].response.output_text # Malformed)
        => LET resp == req[r].response
               res == req'[r].result
           IN /\ req'[r].pc = "done"
              /\ res.status = 200
              /\ PrimaryPresent(resp) => res.reply = resp.output_text
              /\ (~PrimaryPresent(resp) /\ resp.text # Absent) => res.reply = resp.text
              /\ (~PrimaryPresent(resp) /\ resp.text = Absent) => res.reply = Placeholder
              /\ Count(req'[r].trace, "fallback") <= 1
              /\ PrimaryPresent(resp) => Count(req'[r].trace, "fallback") = 0]_vars

C5_Witness ==
    \E r \in Reqs :
        /\ Done(r)
        /\ req[r].result = Ok("Prueba la Rubia Suave.")
        /\ Count(req[r].trace, "fallback") = 1

\* C6: the client is constructed at most once in the process, and every
\* request that holds a handle holds the process-wide one.
C6_SingleClient ==
    /\ constructed <= 1
    /\ \A r \in Reqs : req[r].handle # None => req[r].handle = client

C6_Witness ==
    \E r, q \in Reqs :
        /\ r # q
        /\ req[r].pc = "L120"
        /\ Count(req[r].trace, "construct") = 1
        /\ req[r].handle = client
        /\ req[q].pc = "pending"
        /\ constructed = 1

\* C7: when the load at import fails (file missing, unreadable or
\* unparseable) the process does not crash and serves with an empty catalog;
\* from then on every request ends with HTTP 500 catalog-unavailable and no
\* outbound call, whatever the credential and whatever the file becomes.
C7_FailedLoadFailsFast ==
    LoadFailed(bootFile) =>
        /\ proc # "crashed"
        /\ proc = "serving" =>
            /\ BEERS_DATA = JList(<<>>)
            /\ \A r \in Reqs :
                /\ Count(req[r].trace, "call") = 0
                /\ Done(r) => req[r].result = CatalogError

C7_Witness ==
    /\ bootFile = FileUnparseable
    /\ file = FileOk(JList(<<"Rubia Suave">>))
    /\ env = "sk-test"
    /\ \A r \in Reqs : Done(r) /\ req[r].result = CatalogError

\* A step of a request: its slot changes.
RequestStep == \E r \in Reqs : req'[r] # req[r]

\* C8 as stated: no step of a request changes the catalog or the client.
C8_NoSharedWrite ==
    [][RequestStep => (BEERS_DATA' = BEERS_DATA /\ client' = client)]_vars

\* C8 as amended: no step of a request changes the catalog or the
\* environment; the client changes only at the construction step of a
\* request that found it unset, from unset to the client that request then
\* holds.
C8_FrameExceptLazyInit ==
    [][RequestStep =>
        /\ BEERS_DATA' = BEERS_DATA
        /\ proc' = proc
        /\ file' = file
        /\ env' = env
        /\ \/ client' = client /\ constructed' = constructed
           \/ /\ client = None
              /\ client' # None
              /\ \E r \in Reqs :
                    /\ req[r].pc = "L63"
                    /\ req'[r].pc = "L120"
                    /\ req'[r].handle = client']_vars

C8_Witness ==
    \E r \in Reqs :
        /\ req[r].pc = "L120"
        /\ Count(req[r].trace, "construct") = 1
        /\ client # None
        /\ req[r].handle = client

\* C9: a request makes at most one outbound call; the call comes after the
\* catalog check and then the credential step, in that order; a finished
\* request made exactly one call if the catalog is non-empty and it obtained
\* a handle, and none otherwise; a failed call is not repeated.
C9_OneCallAfterChecks ==
    \A r \in Reqs :
        LET tr == req[r].trace
            calls == Count(tr, "call")
        IN /\ calls <= 1
           /\ calls = 1 =>
                /\ ~CatalogEmpty
                /\ req[r].handle # None
                /\ Len(tr) >= 3
                /\ tr[1] = "catalog"
                /\ tr[2] = "credential"
                /\ \/ tr[3] = "call"
                   \/ tr[3] = "construct" /\ Len(tr) >= 4 /\ tr[4] = "call"
           /\ Count(tr, "credential") > 0 => tr[1] = "catalog"
           /\ Done(r) => (calls = 1 <=> (~CatalogEmpty /\ req[r].handle # None))

C9_Witness ==
    \E r \in Reqs :
        /\ Done(r)
        /\ req[r].trace = <<"catalog", "credential", "construct", "call", "except">>
        /\ req[r].result = GenericError

\* C10: a set client is never changed by any step; a request that fails the
\* credential step leaves the client unset; a request that finds the client
\* unset and a key in the environment builds it and goes on; a request that
\* finds the client set passes the credential step with it whatever the
\* environment holds.
C10_MonotonicClient ==
    [][/\ client # None => client' = client
       /\ \A r \in Reqs :
            /\ (req[r].pc = "L115" /\ req'[r] # req[r]) =>
                /\ client # None => (req'[r].pc = "L120" /\ req'[r].handle = client)
                /\ (client = None /\ env \notin {NoKey, ""}) => req'[r].pc = "L63"
                /\ (client = None /\ env \in {NoKey, ""}) =>
                        (req'[r].result = ConfigError /\ client' = None)
            /\ (req[r].pc = "L63" /\ req'[r] # req[r]) =>
                /\ req'[r].pc = "L120"
                /\ client' # None
                /\ req'[r].handle = client'
            /\ (req[r].pc = "L149" /\ req'[r] # req[r]) => client' = client]_vars

C10_Witness ==
    \E r, q \in Reqs :
        /\ Done(r)
        /\ req[r].result = ConfigError
        /\ req[q].pc = "L120"
        /\ req[q].trace = <<"catalog", "credential">>
        /\ req[q].handle = client
        /\ client # None
        /\ env = NoKey

====
